---- MODULE Spec2Model ----
(***************************************************************************)
(* A model of src/main.py: the Lexer (a lazy token generator over the      *)
(* characters of `code`) and the recursive-descent Parser with panic-mode  *)
(* recovery that pulls tokens from it.                                     *)
(*                                                                         *)
(* Characters are one-character strings and `code` is a sequence of them.  *)
(* The Python call stack of the parser is the variable `stack`, a sequence *)
(* of frames [fn, pc]; the innermost call is the last element.  A call     *)
(* that is the last statement of a function without a try block (advance,  *)
(* match, error, recover, query, program) replaces the caller's frame.     *)
(***************************************************************************)
EXTENDS Integers, Sequences, FiniteSets, TLC

VARIABLES
    code,            \* Lexer.code
    position,        \* Lexer.position
    line,            \* Lexer.line
    char_position,   \* Lexer.char_position
    tokens,          \* Parser.tokens: where the generator Lexer.tokenize is suspended
    lexemes,         \* list(lexer.tokenize()) as the lexer tests collect it
    current_token,   \* Parser.current_token
    errors,          \* Parser.errors
    stack,           \* the call stack below Parser.__init__ / Parser.parse
    exc,             \* the exception being propagated, or NoExc
    phase,           \* where the driver (main, or a test) is
    output           \* what main has written to its output file, unit by unit

vars == <<code, position, line, char_position, tokens, lexemes,
          current_token, errors, stack, exc, phase, output>>

lexer_vars == <<position, line, char_position, tokens>>

-----------------------------------------------------------------------------
(* Bounds of the model.                                                    *)

\* longest input of the parser specification that is any string, in characters
MaxLen == 4
\* longest program of the grammar among the inputs, in characters
MaxProgramLen == 8
\* longest input of the lexer specification, in characters
MaxLexLen == 4

-----------------------------------------------------------------------------
(* Characters.  The predicates are str.isspace, str.isdigit, str.islower,  *)
(* str.isupper and str.isalnum restricted to the characters of the model.  *)

Space == {" ", "\n"}
Digit == {"1", "2"}
Lower == {"a", "b"}
Upper == {"X"}

isspace(c) == c \in Space
isdigit(c) == c \in Digit
islower(c) == c \in Lower
isupper(c) == c \in Upper
isalnum(c) == c \in Digit \cup Lower \cup Upper

\* None, as get_next_char and peek_next_char return it at the end of the code
None == "None"

-----------------------------------------------------------------------------
(* Lexeme and the Lexer.  A lexer state is [position, line, char_position]. *)

\* TokenType
TokenTypes ==
    {"PLUS", "MINUS", "MULTIPLY", "DIVIDE", "ESCAPE", "CARET", "TILDE", "COLON",
     "COLON_DASH", "PERIOD", "COMMA", "OPEN_PAREN", "CLOSE_PAREN", "QUERY",
     "ATOM", "VARIABLE", "NUMERAL", "EOF", "INVALID"}

Lexeme(token_type, value, ln, cp) ==
    [token_type |-> token_type, value |-> value, line |-> ln, char_position |-> cp]

\* a variant of get_next_char that treats a newline as any other character
get_next_char_ignoring_newline(s) ==
    IF s.position >= Len(code)
    THEN [char |-> None, s |-> s]
    ELSE [char |-> code[s.position + 1],
          s |-> [position |-> s.position + 1, line |-> s.line,
                 char_position |-> s.char_position + 1]]

\* Lexer.get_next_char: the character read (or None) and the state after it
get_next_char(s) ==
    IF s.position >= Len(code)
    THEN [char |-> None, s |-> s]
    ELSE LET char == code[s.position + 1]
         IN  [char |-> char,
              s |-> IF char = "\n"
                    THEN [position |-> s.position + 1, line |-> s.line + 1,
                          char_position |-> 0]
                    ELSE [position |-> s.position + 1, line |-> s.line,
                          char_position |-> s.char_position + 1]]

\* Lexer.peek_next_char
peek_next_char(s) ==
    IF s.position >= Len(code) THEN None ELSE code[s.position + 1]

\* the lexer states
LexerStates == [position : Nat, line : Nat, char_position : Nat]

\* the while loop of tokenize_numeral
numeral_loop[s \in LexerStates, value \in STRING] ==
    IF peek_next_char(s) # None /\ isdigit(peek_next_char(s))
    THEN LET r == get_next_char(s) IN numeral_loop[r.s, value \o r.char]
    ELSE [value |-> value, s |-> s]

\* Lexer.tokenize_numeral
tokenize_numeral(s, char) ==
    LET start_position == s.char_position
        r == numeral_loop[s, char]
    IN  [tok |-> Lexeme("NUMERAL", r.value, r.s.line, start_position), s |-> r.s]

\* the while loop shared by tokenize_atom and tokenize_variable
ident_loop[s \in LexerStates, value \in STRING] ==
    IF peek_next_char(s) # None
       /\ (isalnum(peek_next_char(s)) \/ peek_next_char(s) = "_")
    THEN LET r == get_next_char(s) IN ident_loop[r.s, value \o r.char]
    ELSE [value |-> value, s |-> s]

\* a variant of tokenize_atom that stops after the first character
tokenize_atom_one_char(s, char) ==
    [tok |-> Lexeme("ATOM", char, s.line, s.char_position), s |-> s]

\* Lexer.tokenize_atom
tokenize_atom(s, char) ==
    LET start_position == s.char_position
        r == ident_loop[s, char]
    IN  [tok |-> Lexeme("ATOM", r.value, r.s.line, start_position), s |-> r.s]

\* Lexer.tokenize_variable
tokenize_variable(s, char) ==
    LET start_position == s.char_position
        r == ident_loop[s, char]
    IN  [tok |-> Lexeme("VARIABLE", r.value, r.s.line, start_position), s |-> r.s]

\* the message of the ValueError of tokenize_string
Unterminated(ln, start_position) ==
    "Unterminated string starting at line " \o ToString(ln)
        \o ", char " \o ToString(start_position)

\* the while loop of tokenize_string: a lexeme, or the ValueError
string_loop[s \in LexerStates, value \in STRING, start_position \in Nat] ==
    LET r == get_next_char(s)
    IN  IF r.char = None
        THEN [raised |-> TRUE, msg |-> Unterminated(r.s.line, start_position),
              s |-> r.s]
        ELSE IF r.char = "'"
        THEN [raised |-> FALSE,
              tok |-> Lexeme("ATOM", value, r.s.line, start_position), s |-> r.s]
        ELSE string_loop[r.s, value \o r.char, start_position]

\* Lexer.tokenize_string
tokenize_string(s) == string_loop[s, "", s.char_position]

\* the token types of the single-character operators of Lexer.tokenize
SingleChar ==
    [c \in {"+", "-", "*", "/", "\\", "^", "~", ".", ",", "(", ")"} |->
        CASE c = "+" -> "PLUS"
          [] c = "-" -> "MINUS"
          [] c = "*" -> "MULTIPLY"
          [] c = "/" -> "DIVIDE"
          [] c = "\\" -> "ESCAPE"
          [] c = "^" -> "CARET"
          [] c = "~" -> "TILDE"
          [] c = "." -> "PERIOD"
          [] c = "," -> "COMMA"
          [] c = "(" -> "OPEN_PAREN"
          [] c = ")" -> "CLOSE_PAREN"]

\* what one resumption of the generator produces
Yield(tok, s, at) == [kind |-> "yield", tok |-> tok, s |-> s, tokens |-> at]
Raise(msg, s) == [kind |-> "raise", msg |-> msg, s |-> s, tokens |-> "finished"]
StopIteration(s) == [kind |-> "stop", s |-> s, tokens |-> "finished"]

\* a variant of lookahead that never reads the '-' after ':' or '?'
lookahead_leaving_dash(s, char) ==
    IF char = ":"
    THEN IF peek_next_char(s) = "-"
         THEN Yield(Lexeme("COLON_DASH", ":-", s.line, s.char_position), s, "loop")
         ELSE Yield(Lexeme("COLON", ":", s.line, s.char_position), s, "loop")
    ELSE IF peek_next_char(s) = "-"
         THEN Yield(Lexeme("QUERY", "?-", s.line, s.char_position), s, "loop")
         ELSE Yield(Lexeme("INVALID", char, s.line, s.char_position), s, "loop")

\* the two-character lookahead of Lexer.tokenize for ':' and '?': the lexeme
\* is yielded before the '-' is read, which the generator does when resumed
lookahead(s, char) ==
    IF char = ":"
    THEN IF peek_next_char(s) = "-"
         THEN Yield(Lexeme("COLON_DASH", ":-", s.line, s.char_position), s, "before_dash")
         ELSE Yield(Lexeme("COLON", ":", s.line, s.char_position), s, "loop")
    ELSE IF peek_next_char(s) = "-"
         THEN Yield(Lexeme("QUERY", "?-", s.line, s.char_position), s, "before_dash")
         ELSE Yield(Lexeme("INVALID", char, s.line, s.char_position), s, "loop")

\* a variant of other_char that loses the character
other_char_without_text(s, char) ==
    Yield(Lexeme("INVALID", "", s.line, s.char_position), s, "loop")

\* the else of Lexer.tokenize: a character of no other branch
other_char(s, char) ==
    Yield(Lexeme("INVALID", char, s.line, s.char_position), s, "loop")

\* the body of the while loop of Lexer.tokenize, run up to its next yield
tokenize_loop[s0 \in LexerStates] ==
    LET r == get_next_char(s0)
        char == r.char
        s == r.s
    IN  IF char = None
        THEN Yield(Lexeme("EOF", "EOF", s.line, s.char_position), s, "after_eof")
        ELSE IF isspace(char) THEN tokenize_loop[s]
        ELSE IF char \in DOMAIN SingleChar
        THEN Yield(Lexeme(SingleChar[char], char, s.line, s.char_position), s, "loop")
        ELSE IF char = "'"
        THEN LET t == tokenize_string(s)
             IN  IF t.raised THEN Raise(t.msg, t.s) ELSE Yield(t.tok, t.s, "loop")
        ELSE IF char \in {":", "?"} THEN lookahead(s, char)
        ELSE IF isdigit(char)
        THEN LET t == tokenize_numeral(s, char) IN Yield(t.tok, t.s, "loop")
        ELSE IF islower(char)
        THEN LET t == tokenize_atom(s, char) IN Yield(t.tok, t.s, "loop")
        ELSE IF isupper(char) \/ char = "_"
        THEN LET t == tokenize_variable(s, char) IN Yield(t.tok, t.s, "loop")
        ELSE other_char(s, char)

\* Lexer.tokenize: next() on the generator suspended at `at` with lexer state s.
\* A generator that has returned or raised is finished and stops every time.
tokenize(s, at) ==
    CASE at = "finished" -> StopIteration(s)
      [] at = "after_eof" -> StopIteration(s)
      [] at = "before_dash" -> tokenize_loop[get_next_char(s).s]
      [] OTHER -> tokenize_loop[s]

\* the lexer state held in the variables
lexer == [position |-> position, line |-> line, char_position |-> char_position]

\* the lexer state of Lexer.__init__
lexer_init == [position |-> 0, line |-> 1, char_position |-> 0]

\* the variables take the lexer state of the result r of tokenize
SetLexer(r) ==
    /\ position' = r.s.position
    /\ line' = r.s.line
    /\ char_position' = r.s.char_position
    /\ tokens' = r.tokens

-----------------------------------------------------------------------------
(* The Parser.                                                             *)

NoExc == "NoExc"

\* Parser.current_token before the first advance (None in the source)
NoToken == Lexeme("NONE", "", 0, 0)

Frame(fn, pc) == [fn |-> fn, pc |-> pc]
Top == stack[Len(stack)]
Rest == SubSeq(stack, 1, Len(stack) - 1)
\* the stack with the running function at pc
Goto(pc) == Rest \o <<Frame(Top.fn, pc)>>
\* the stack after the running function, to resume at pc, has called fn
Call(fn, pc) == Rest \o <<Frame(Top.fn, pc), Frame(fn, "start")>>
\* the stack after the running function has made fn its last call
TailCall(fn) == Rest \o <<Frame(fn, "start")>>

RunningIn(fn, pcs) == stack # <<>> /\ exc = NoExc /\ Top.fn = fn /\ Top.pc \in pcs
Running(fn, pc) == RunningIn(fn, {pc})

\* a variant of sync_tokens that leaves out the period
sync_tokens_without_period == {"COMMA", "QUERY", "EOF", "CLOSE_PAREN"}

\* the sync_tokens of Parser.recover
sync_tokens == {"PERIOD", "COMMA", "QUERY", "EOF", "CLOSE_PAREN"}

\* a variant of ErrorEntry that takes the line for the column
ErrorEntry_line_for_column(message, tok) ==
    [message |-> message, line |-> tok.line, char_position |-> tok.line]

\* an entry of Parser.errors: error_msg is
\* "Syntax Error: {message} at line {line}, char {char_position}"
ErrorEntry(message, tok) ==
    [message |-> message, line |-> tok.line, char_position |-> tok.char_position]

\* a variant of error that records the entry and returns without recovery
error_without_recover(message, tok, rest) ==
    /\ errors' = Append(errors, ErrorEntry(message, tok))
    /\ stack' = rest

\* Parser.error with tok the current token: the entry is appended and recover
\* runs; rest is the stack to return to
error(message, tok, rest) ==
    /\ errors' = Append(errors, ErrorEntry(message, tok))
    /\ stack' = rest \o <<Frame("recover", "loop")>>

\* a variant of is_invalid that lets a lone '?' through
is_invalid_unless_question_mark(tok) ==
    tok.token_type = "INVALID" /\ tok.value # "?"

\* the test of Parser.advance for an Invalid token
is_invalid(tok) == tok.token_type = "INVALID"

\* a variant of stop_token that leaves the current token as it is
stop_token_unchanged == current_token

\* the token of the `except StopIteration` of Parser.advance
stop_token == Lexeme("EOF", "EOF", -1, -1)

\* Parser.advance, run in its own frame.  A ValueError of the lexer leaves
\* current_token as it was and propagates to the caller; the error of an
\* Invalid token is the last call of advance.
advance ==
    /\ Running("advance", "start")
    /\ UNCHANGED <<code, lexemes, phase, output>>
    /\ \E r \in {tokenize(lexer, tokens)} :
           /\ SetLexer(r)
           /\ current_token' = CASE r.kind = "yield" -> r.tok
                                  [] r.kind = "stop" -> stop_token
                                  [] r.kind = "raise" -> current_token
           /\ exc' = IF r.kind = "raise" THEN r.msg ELSE exc
           /\ IF r.kind = "yield" /\ is_invalid(r.tok)
              THEN error("Invalid token '" \o r.tok.value, r.tok, Rest)
              ELSE errors' = errors /\ stack' = Rest

\* a step of the parser that reads no token
NoAdvance == UNCHANGED <<lexer_vars, current_token>>

\* Parser.error called by a grammar rule, at the current token
rule_error(message, rest) ==
    /\ error(message, current_token, rest)
    /\ NoAdvance
    /\ exc' = exc

\* a step that only moves control
Control(newstack) ==
    /\ stack' = newstack
    /\ NoAdvance
    /\ UNCHANGED <<errors, exc>>

\* self.advance() is called; rest is the stack to return to
CallAdvance(rest) == Control(rest \o <<Frame("advance", "start")>>)

\* a variant of MismatchMessage that does not say what was found
MismatchMessage_without_found(expected_type, found_type) ==
    "Expected TokenType." \o expected_type

\* the message of Parser.match when the types differ
MismatchMessage(expected_type, found_type) ==
    "Expected TokenType." \o expected_type \o ", but found TokenType." \o found_type

\* Parser.match; rest is the stack to return to
match(expected_type, rest) ==
    IF current_token.token_type = expected_type
    THEN CallAdvance(rest)
    ELSE rule_error(MismatchMessage(expected_type, current_token.token_type), rest)

Static == UNCHANGED <<code, lexemes, phase, output>>

\* Parser.__init__: tokens, current_token and errors are set in Init; the
\* constructor ends with self.advance()
ParserInit ==
    /\ phase = "new"
    /\ phase' = "init"
    /\ CallAdvance(<<>>)
    /\ UNCHANGED <<code, lexemes, output>>

\* parser.parse() is called once Parser(lexer) has returned
parse ==
    /\ phase = "init" /\ stack = <<>> /\ exc = NoExc
    /\ phase' = "parse"
    /\ Control(<<Frame("program", "start")>>)
    /\ UNCHANGED <<code, lexemes, output>>

\* Parser.parse returns: program has returned, or its exception was printed
ParseReturn ==
    /\ phase = "parse" /\ stack = <<>>
    /\ phase' = "done"
    /\ exc' = NoExc
    /\ stack' = stack
    /\ NoAdvance
    /\ UNCHANGED <<code, lexemes, errors, output>>

\* the ValueError leaves Parser.__init__, which has no handler
InitRaise ==
    /\ phase = "init" /\ stack = <<>> /\ exc # NoExc
    /\ phase' = "failed"
    /\ stack' = stack
    /\ NoAdvance
    /\ UNCHANGED <<code, lexemes, errors, exc, output>>

\* Parser.program
program ==
    /\ Static
    /\ \/ /\ Running("program", "start")
          /\ current_token.token_type = "QUERY"
          /\ Control(TailCall("query"))
       \/ /\ Running("program", "start")
          /\ current_token.token_type = "ATOM"
          /\ Control(Call("clause_list", "after_clause_list"))
       \/ /\ Running("program", "start")
          /\ current_token.token_type \notin {"QUERY", "ATOM"}
          /\ rule_error("Expected <clause-list> or <query> at start of program", Rest)
       \/ /\ Running("program", "after_clause_list")
          /\ current_token.token_type = "QUERY"
          /\ Control(TailCall("query"))
       \/ /\ Running("program", "after_clause_list")
          /\ current_token.token_type \notin {"QUERY", "EOF"}
          /\ rule_error("Expected <query> or end of file after clause list", Rest)
       \/ /\ Running("program", "after_clause_list")
          /\ current_token.token_type = "EOF"
          /\ Control(Rest)

\* Parser.clause
clause ==
    /\ Static
    /\ \/ /\ Running("clause", "start")
          /\ Control(Call("predicate", "after_predicate"))
       \/ /\ Running("clause", "after_predicate")
          /\ current_token.token_type = "PERIOD"
          /\ CallAdvance(Goto("return"))
       \/ /\ Running("clause", "after_predicate")
          /\ current_token.token_type = "COLON_DASH"
          /\ CallAdvance(Goto("body"))
       \/ /\ Running("clause", "body")
          /\ Control(Call("predicate_list", "match_period"))
       \/ /\ Running("clause", "after_predicate")
          /\ current_token.token_type \notin {"PERIOD", "COLON_DASH"}
          /\ rule_error("Expected '.' or ':-' after predicate", Goto("return"))
       \/ /\ Running("clause", "match_period")
          /\ match("PERIOD", Goto("return"))
       \/ /\ RunningIn("clause", {"return", "except_return"})
          /\ Control(Rest)

\* Parser.clause_list
clause_list ==
    /\ Static
    /\ \/ /\ Running("clause_list", "start")
          /\ Control(Call("clause", "after_clause"))
       \/ /\ Running("clause_list", "after_clause")
          /\ current_token.token_type # "ATOM"
          /\ Control(Rest)
       \/ /\ Running("clause_list", "after_clause")
          /\ current_token.token_type = "ATOM"
          /\ Control(Call("clause", "after_clause"))

\* Parser.query
query ==
    /\ Static
    /\ \/ /\ Running("query", "start")
          /\ current_token.token_type = "QUERY"
          /\ CallAdvance(Goto("body"))
       \/ /\ Running("query", "body")
          /\ Control(Call("predicate_list", "end"))
       \/ /\ Running("query", "start")
          /\ current_token.token_type # "QUERY"
          /\ rule_error("Expected '?-' to start a query", Rest)
       \/ /\ Running("query", "end")
          /\ current_token.token_type = "PERIOD"
          /\ CallAdvance(Rest)
       \/ /\ Running("query", "end")
          /\ current_token.token_type # "PERIOD"
          /\ rule_error("Expected '.' at the end of query", Rest)

\* Parser.predicate_list
predicate_list ==
    /\ Static
    /\ \/ /\ RunningIn("predicate_list", {"start", "except_loop"})
          /\ Control(Call("predicate", "after_predicate"))
       \/ /\ Running("predicate_list", "after_predicate")
          /\ current_token.token_type = "COMMA"
          /\ CallAdvance(Goto("start"))
       \/ /\ Running("predicate_list", "after_predicate")
          /\ current_token.token_type # "COMMA"
          /\ Control(Rest)

\* Parser.term_list
term_list ==
    /\ Static
    /\ \/ /\ RunningIn("term_list", {"start", "except_loop"})
          /\ Control(Call("term", "after_term"))
       \/ /\ Running("term_list", "after_term")
          /\ current_token.token_type = "COMMA"
          /\ CallAdvance(Goto("start"))
       \/ /\ Running("term_list", "after_term")
          /\ current_token.token_type # "COMMA"
          /\ Control(Rest)

\* a variant of term_leaf_types that leaves out the variable
term_leaf_types_without_variable == {"NUMERAL"}

\* the token types of the elif of Parser.term
term_leaf_types == {"VARIABLE", "NUMERAL"}

\* Parser.term
term ==
    /\ Static
    /\ \/ /\ Running("term", "start")
          /\ current_token.token_type = "ATOM"
          /\ CallAdvance(Goto("after_atom"))
       \/ /\ Running("term", "start")
          /\ current_token.token_type \in term_leaf_types
          /\ CallAdvance(Goto("return"))
       \/ /\ Running("term", "start")
          /\ current_token.token_type \notin {"ATOM"} \cup term_leaf_types
          /\ rule_error("Expected <term>", Goto("return"))
       \/ /\ Running("term", "after_atom")
          /\ current_token.token_type = "OPEN_PAREN"
          /\ CallAdvance(Goto("arguments"))
       \/ /\ Running("term", "arguments")
          /\ Control(Call("term_list", "match_close"))
       \/ /\ Running("term", "after_atom")
          /\ current_token.token_type # "OPEN_PAREN"
          /\ Control(Rest)
       \/ /\ Running("term", "match_close")
          /\ match("CLOSE_PAREN", Goto("return"))
       \/ /\ RunningIn("term", {"return", "except_return"})
          /\ Control(Rest)

\* Parser.predicate
predicate ==
    /\ Static
    /\ \/ /\ Running("predicate", "start")
          /\ current_token.token_type = "ATOM"
          /\ CallAdvance(Goto("after_atom"))
       \/ /\ Running("predicate", "start")
          /\ current_token.token_type # "ATOM"
          /\ rule_error("Expected <atom> in predicate", Goto("return"))
       \/ /\ Running("predicate", "after_atom")
          /\ current_token.token_type = "OPEN_PAREN"
          /\ CallAdvance(Goto("arguments"))
       \/ /\ Running("predicate", "arguments")
          /\ Control(Call("term_list", "match_close"))
       \/ /\ Running("predicate", "after_atom")
          /\ current_token.token_type # "OPEN_PAREN"
          /\ Control(Rest)
       \/ /\ Running("predicate", "match_close")
          /\ match("CLOSE_PAREN", Goto("return"))
       \/ /\ RunningIn("predicate", {"return", "except_return"})
          /\ Control(Rest)

\* a variant of recover_while that does not stop at EndOfInput
recover_while_past_eof(token_type) ==
    token_type \notin {"PERIOD", "COMMA", "QUERY", "CLOSE_PAREN"}

\* the condition of the while loop of Parser.recover
recover_while(token_type) ==
    token_type \notin sync_tokens /\ token_type # "EOF"

\* Parser.recover: the while loop; it returns into the caller of error
recover ==
    /\ Static
    /\ \/ /\ Running("recover", "loop")
          /\ recover_while(current_token.token_type)
          /\ CallAdvance(stack)
       \/ /\ Running("recover", "loop")
          /\ ~recover_while(current_token.token_type)
          /\ Control(Rest)

\* the functions whose body is a try block, and the place in the message of
\* their except block
TryName ==
    [fn \in {"clause", "clause_list", "predicate_list", "term_list", "term",
             "predicate"} |->
        CASE fn = "clause" -> "clause"
          [] fn = "clause_list" -> "clause list"
          [] fn = "predicate_list" -> "predicate list"
          [] fn = "term_list" -> "term list"
          [] fn = "term" -> "term"
          [] fn = "predicate" -> "predicate"]

\* the except blocks that go on with `if type not in {...}: self.advance()`
ExceptKeep ==
    [fn \in {"clause_list", "predicate_list", "term_list"} |->
        CASE fn = "clause_list" -> {"ATOM", "QUERY"}
          [] fn = "predicate_list" -> {"COMMA", "PERIOD", "QUERY"}
          [] fn = "term_list" -> {"COMMA", "CLOSE_PAREN"}]

\* the frame is inside its try block (its except block is not)
InTry(f) ==
    /\ f.fn \in DOMAIN TryName
    /\ f.pc \notin {"except_return", "except_skip", "except_loop"}

\* an exception leaves a frame that does not catch it
Propagate ==
    /\ Static
    /\ stack # <<>> /\ exc # NoExc
    /\ ~InTry(Top)
    /\ stack' = Rest
    /\ NoAdvance
    /\ UNCHANGED <<errors, exc>>

\* `except Exception as e: self.error(f"Error in ...: {e}")` of the frame
\* that catches the exception
Except ==
    /\ Static
    /\ stack # <<>> /\ exc # NoExc
    /\ InTry(Top)
    /\ error("Error in " \o TryName[Top.fn] \o ": " \o exc, current_token,
             Goto(IF Top.fn \in DOMAIN ExceptKeep THEN "except_skip"
                  ELSE "except_return"))
    /\ exc' = NoExc
    /\ NoAdvance

\* the rest of the except block of a list rule, then the next iteration
ExceptSkip ==
    /\ Static
    /\ stack # <<>> /\ exc = NoExc
    /\ Top.fn \in DOMAIN ExceptKeep /\ Top.pc = "except_skip"
    /\ IF current_token.token_type \notin ExceptKeep[Top.fn]
       THEN CallAdvance(Goto("except_loop"))
       ELSE Control(Goto("except_loop"))

-----------------------------------------------------------------------------
(* The inputs.                                                             *)

\* the characters of the exhaustive inputs of the parser specification
ParserChars == {"a", "X", "(", ")", ",", ".", ":", "-", "?", "'"}

\* the sequences over chars of length at most n
Strings(chars, n) == UNION {[1..k -> chars] : k \in 0..n}

(* The programs of the grammar of the specification,                       *)
(*     program := query | clause-list (query)?                             *)
(* written with the atom a and the variable X, of at most n characters.    *)
RECURSIVE GenTerm(_), GenTermList(_), GenPredicateList(_), GenClauseList(_)

GenTerm(n) ==
    IF n < 1 THEN {}
    ELSE {<<"X">>, <<"a">>}
         \cup {<<"a", "(">> \o tl \o <<")">> : tl \in GenTermList(n - 3)}

GenTermList(n) ==
    IF n < 1 THEN {}
    ELSE GenTerm(n)
         \cup UNION {{t \o <<",">> \o tl : tl \in GenTermList(n - 1 - Len(t))} :
                        t \in GenTerm(n - 2)}

GenPredicate(n) ==
    IF n < 1 THEN {}
    ELSE {<<"a">>} \cup {<<"a", "(">> \o tl \o <<")">> : tl \in GenTermList(n - 3)}

GenPredicateList(n) ==
    IF n < 1 THEN {}
    ELSE GenPredicate(n)
         \cup UNION {{p \o <<",">> \o pl : pl \in GenPredicateList(n - 1 - Len(p))} :
                        p \in GenPredicate(n - 2)}

GenClause(n) ==
    {p \o <<".">> : p \in GenPredicate(n - 1)}
    \cup UNION {{p \o <<":", "-">> \o pl \o <<".">> :
                    pl \in GenPredicateList(n - 3 - Len(p))} :
                   p \in GenPredicate(n - 4)}

GenClauseList(n) ==
    IF n < 2 THEN {}
    ELSE GenClause(n)
         \cup UNION {{c \o cl : cl \in GenClauseList(n - Len(c))} :
                        c \in GenClause(n - 2)}

GenQuery(n) == {<<"?", "-">> \o pl \o <<".">> : pl \in GenPredicateList(n - 3)}

GenProgram(n) ==
    GenQuery(n) \cup GenClauseList(n)
    \cup UNION {{cl \o q : q \in GenQuery(n - Len(cl))} : cl \in GenClauseList(n - 4)}

\* what one edit puts in place: nothing, a character, or a second atom
EditStrings ==
    {<<>>, <<" ", "b">>, <<"!">>, <<"?", "-">>, <<":", "-">>}
    \cup {<<c>> : c \in ParserChars \ {":", "-", "?"}}

\* p with e inserted after its first i characters, in place of the next d
Edit(p, i, d, e) ==
    SubSeq(p, 1, i) \o e \o SubSeq(p, i + 1 + d, Len(p))

\* the programs of at most n characters, each as it is and with one edit
Edited(n) ==
    UNION {{Edit(p, i, d, e) : i \in 0..Len(p), d \in {0, 1}, e \in EditStrings} :
              p \in GenProgram(n)}

\* inputs the specification and the tests name, with one-letter identifiers
Examples ==
    { <<"a", " ", "b", ".", " ", "a", " ", "b", ".">>,
      <<"a", "(", "X", ")", " ", ":", "-", " ", "a", "(", "X", ")", ",", " ",
        "b", "(", "X", ")", ".">>,
      <<"a", "(", "b", "(", "a", ",", "1", ")", ",", " ", "b", "\n">>,
      <<"?", "-", " ", "a", "(", "b", "(", "a", ",", "1", ")", ",", " ", "!",
        "b", ")", ".">>,
      <<"\n", "a", "(", "b", ",", "1", ")", ".", "\n", "a", "(", "b", ",", "2",
        ")", ".", "\n", "?", "-", " ", "b", "(", "a", "(", "_", ",", "1", ")",
        ",", " ", "b", ")", ".", "\n">> }

Inputs == Strings(ParserChars, MaxLen) \cup Edited(MaxProgramLen) \cup Examples

Init ==
    /\ code \in Inputs
    /\ position = 0
    /\ line = 1
    /\ char_position = 0
    /\ tokens = "loop"
    /\ lexemes = <<>>
    /\ current_token = NoToken
    /\ errors = <<>>
    /\ stack = <<>>
    /\ exc = NoExc
    /\ phase = "new"
    /\ output = <<>>

Next ==
    \/ ParserInit
    \/ parse
    \/ ParseReturn
    \/ InitRaise
    \/ program
    \/ clause
    \/ clause_list
    \/ query
    \/ predicate_list
    \/ term_list
    \/ term
    \/ predicate
    \/ recover
    \/ advance
    \/ Propagate
    \/ Except
    \/ ExceptSkip

Spec == Init /\ [][Next]_vars

\* the interpreter runs the parser on: every call returns or raises
FairSpec == Spec /\ WF_vars(Next)

-----------------------------------------------------------------------------
(* The driver: main runs a fresh Lexer and Parser on each unit and appends *)
(* the unit's result to its output file.  The units of the model hold the  *)
(* same text.                                                              *)

\* the number of units main processes
MaxFiles == 2

\* a variant of new_errors where the list is shared by all parsers
new_errors_shared == errors

\* the `self.errors = []` of Parser.__init__
new_errors == <<>>

\* the body of the while loop of main after parse() has returned: the result
\* of the unit is written, and the next unit gets its own Lexer and Parser
main_next ==
    /\ phase = "done"
    /\ Len(output) < MaxFiles
    /\ output' = Append(output, errors)
    /\ code' = code
    /\ lexemes' = lexemes
    /\ IF Len(output) + 1 < MaxFiles
       THEN /\ position' = lexer_init.position
            /\ line' = lexer_init.line
            /\ char_position' = lexer_init.char_position
            /\ tokens' = "loop"
            /\ current_token' = NoToken
            /\ errors' = new_errors
            /\ stack' = <<>>
            /\ exc' = NoExc
            /\ phase' = "new"
       ELSE /\ phase' = "exit"
            /\ UNCHANGED <<lexer_vars, current_token, errors, stack, exc>>

NextMain ==
    \/ ParserInit
    \/ parse
    \/ ParseReturn
    \/ InitRaise
    \/ program
    \/ clause
    \/ clause_list
    \/ query
    \/ predicate_list
    \/ term_list
    \/ term
    \/ predicate
    \/ recover
    \/ advance
    \/ Propagate
    \/ Except
    \/ ExceptSkip
    \/ main_next

SpecMain == Init /\ [][NextMain]_vars

-----------------------------------------------------------------------------
(* The lexer on its own, as the lexer tests run it:                        *)
(* tokens = list(lexer.tokenize()).                                        *)

\* the characters of the inputs of the lexer specification
LexChars == {"a", "X", "1", "_", ":", "-", "?", "'", " ", "\n", "!", "."}

InitLex ==
    /\ code \in Strings(LexChars, MaxLexLen)
    /\ position = 0
    /\ line = 1
    /\ char_position = 0
    /\ tokens = "loop"
    /\ lexemes = <<>>
    /\ current_token = NoToken
    /\ errors = <<>>
    /\ stack = <<>>
    /\ exc = NoExc
    /\ phase = "lex"
    /\ output = <<>>

\* one next() of list(): a lexeme is collected, or the generator stops and
\* the list is complete, or the ValueError leaves list()
NextLexeme ==
    /\ phase = "lex"
    /\ \E r \in {tokenize(lexer, tokens)} :
           /\ SetLexer(r)
           /\ lexemes' = IF r.kind = "yield" THEN Append(lexemes, r.tok) ELSE lexemes
           /\ phase' = CASE r.kind = "yield" -> "lex"
                         [] r.kind = "stop" -> "lexed"
                         [] r.kind = "raise" -> "lex_failed"
    /\ UNCHANGED <<code, current_token, errors, stack, exc, output>>

NextLex == NextLexeme

SpecLex == InitLex /\ [][NextLex]_vars

-----------------------------------------------------------------------------
(* What the claims speak of.                                               *)

\* list(lexer.tokenize()) from the start of the code: the lexemes, and
\* whether the ValueError of an unterminated quoted atom ended it
RECURSIVE LexFrom(_, _, _)
LexFrom(s, at, acc) ==
    LET r == tokenize(s, at)
    IN  CASE r.kind = "yield" -> LexFrom(r.s, r.tokens, Append(acc, r.tok))
          [] r.kind = "stop" -> [lexemes |-> acc, raised |-> FALSE]
          [] r.kind = "raise" -> [lexemes |-> acc, raised |-> TRUE]

LexAll == LexFrom(lexer_init, "loop", <<>>)

\* the token types of the input up to EndOfInput (not included)
InputTypes ==
    LET l == LexAll.lexemes
    IN  [i \in 1..(Len(l) - (IF LexAll.raised THEN 0 ELSE 1)) |-> l[i].token_type]

\* a position in the source: (line, column)
Pos(x) == <<x.line, x.char_position>>

Last(s) == s[Len(s)]

(* The grammar of the specification, on sequences of token types:          *)
(*   program        := query | clause-list (query)?                        *)
(*   clause-list    := clause { clause }                                   *)
(*   clause         := predicate ( '.' | ':-' predicate-list '.' )         *)
(*   query          := '?-' predicate-list '.'                             *)
(*   predicate-list := predicate { ',' predicate }                         *)
(*   predicate      := atom [ '(' term-list ')' ]                          *)
(*   term-list      := term { ',' term }                                   *)
(*   term           := atom [ '(' term-list ')' ] | variable | numeral     *)
RECURSIVE IsTerm(_), IsTermList(_), IsPredicateList(_), IsClauseList(_)

\* k is an atom applied to a parenthesized term-list
IsStructure(k) ==
    /\ Len(k) >= 4
    /\ k[1] = "ATOM" /\ k[2] = "OPEN_PAREN" /\ k[Len(k)] = "CLOSE_PAREN"
    /\ IsTermList(SubSeq(k, 3, Len(k) - 1))

IsTerm(k) ==
    \/ k \in {<<"ATOM">>, <<"VARIABLE">>, <<"NUMERAL">>}
    \/ IsStructure(k)

IsTermList(k) ==
    \/ IsTerm(k)
    \/ \E i \in 2..(Len(k) - 1) :
          /\ k[i] = "COMMA"
          /\ IsTerm(SubSeq(k, 1, i - 1))
          /\ IsTermList(SubSeq(k, i + 1, Len(k)))

IsPredicate(k) == k = <<"ATOM">> \/ IsStructure(k)

IsPredicateList(k) ==
    \/ IsPredicate(k)
    \/ \E i \in 2..(Len(k) - 1) :
          /\ k[i] = "COMMA"
          /\ IsPredicate(SubSeq(k, 1, i - 1))
          /\ IsPredicateList(SubSeq(k, i + 1, Len(k)))

IsClause(k) ==
    /\ Len(k) >= 2
    /\ k[Len(k)] = "PERIOD"
    /\ \/ IsPredicate(SubSeq(k, 1, Len(k) - 1))
       \/ \E i \in 2..(Len(k) - 2) :
             /\ k[i] = "COLON_DASH"
             /\ IsPredicate(SubSeq(k, 1, i - 1))
             /\ IsPredicateList(SubSeq(k, i + 1, Len(k) - 1))

IsClauseList(k) ==
    \/ IsClause(k)
    \/ \E i \in 2..(Len(k) - 2) :
          /\ k[i] = "PERIOD"
          /\ IsClause(SubSeq(k, 1, i))
          /\ IsClauseList(SubSeq(k, i + 1, Len(k)))

IsQuery(k) ==
    /\ Len(k) >= 3
    /\ k[1] = "QUERY" /\ k[Len(k)] = "PERIOD"
    /\ IsPredicateList(SubSeq(k, 2, Len(k) - 1))

IsProgram(k) ==
    \/ IsQuery(k)
    \/ IsClauseList(k)
    \/ \E i \in 2..(Len(k) - 3) :
          /\ k[i] = "PERIOD"
          /\ IsClauseList(SubSeq(k, 1, i))
          /\ IsQuery(SubSeq(k, i + 1, Len(k)))

\* the input is a token sequence (no ValueError) of the grammar
WellFormed == ~LexAll.raised /\ IsProgram(InputTypes)

-----------------------------------------------------------------------------
(* The claims.                                                             *)

\* C1: when the tokens of the input are derivable from
\* program := query | clause-list (query)?, Parser.parse() ends with an
\* empty diagnostics list.
C1_ValidProgramNoDiagnostics ==
    (phase = "done" /\ WellFormed) => errors = <<>>

\* C1 witness: parse() has ended without a diagnostic on a well-formed
\* input that is a clause list with a structure, followed by a query with a
\* variable.
C1_Witness ==
    /\ phase = "done" /\ WellFormed /\ errors = <<>>
    /\ \E i, j, m \in DOMAIN InputTypes :
          /\ i < j /\ j < m
          /\ InputTypes[i] = "OPEN_PAREN"
          /\ InputTypes[j] = "QUERY"
          /\ InputTypes[m] = "VARIABLE"

\* C2 (as claimed): when Parser.parse() ends with no diagnostic recorded,
\* the token sequence of the input up to EndOfInput is derivable from the
\* grammar.
C2_NoDiagnosticsMeansWellFormed ==
    (phase = "done" /\ errors = <<>> /\ ~LexAll.raised) => IsProgram(InputTypes)

\* C3 (as claimed): when program has returned and the current token is not
\* EndOfInput, a diagnostic for the unconsumed input has been recorded: the
\* list is not empty and its last entry is at the current token.
C3_TrailingGarbageDiagnosed ==
    (phase = "done" /\ ~LexAll.raised /\ current_token.token_type # "EOF")
        => (errors # <<>> /\ Pos(Last(errors)) = Pos(current_token))

\* C4: parsing always terminates: Parser(lexer) returns or raises, and
\* parse() returns, after finitely many steps.
C4_ParsingTerminates == <>(phase \in {"done", "failed"})

\* C4 witness: parse() has returned at EndOfInput on an input whose closing
\* parenthesis is missing.
C4_Witness ==
    /\ phase = "done"
    /\ current_token.token_type = "EOF"
    /\ \E i \in DOMAIN errors :
          errors[i].message = MismatchMessage("CLOSE_PAREN", "EOF")
    /\ Len(InputTypes) >= 8

\* the generator has ended with the ValueError of an unterminated quoted atom
RaisedValueError == tokens = "finished" /\ LexAll.raised

\* C5 (as claimed): the ValueError of an unterminated quoted atom is fatal:
\* no handler of the parser takes it, so from the moment it is raised it is
\* propagating or has reached the caller of Parser(lexer) / parse().
C5_UnterminatedIsFatal ==
    RaisedValueError => (exc # NoExc \/ phase = "failed")

\* the lexemes of the input and their number without EndOfInput
InputLexemes == LexAll.lexemes
InputLen == Len(InputTypes)

\* some diagnostic is at one of the tokens a..b of the input
DiagnosedIn(a, b) ==
    \E e \in DOMAIN errors, j \in a..b : Pos(errors[e]) = Pos(InputLexemes[j])

\* the input is two clauses, each begun by an atom and ended by the only
\* period in it, and neither derivable from clause; the first has i tokens
TwoFaultyClauses(i) ==
    /\ i < InputLen
    /\ \A j \in 1..InputLen :
          /\ (InputTypes[j] = "PERIOD") = (j \in {i, InputLen})
          /\ InputTypes[j] # "QUERY"
    /\ InputTypes[1] = "ATOM" /\ InputTypes[i + 1] = "ATOM"
    /\ ~IsClause(SubSeq(InputTypes, 1, i))
    /\ ~IsClause(SubSeq(InputTypes, i + 1, InputLen))

\* C6 (as claimed): when two clauses of the input each hold a syntax
\* violation, parse() records a diagnostic at a token of each of them.
C6_IndependentErrorsSurfaced ==
    (phase = "done" /\ ~LexAll.raised) =>
        \A i \in 1..InputLen :
            TwoFaultyClauses(i) => DiagnosedIn(1, i) /\ DiagnosedIn(i + 1, InputLen)

\* the token types that cannot follow the predicate of a clause
Unexpected == TokenTypes \ {"PERIOD", "COLON_DASH", "OPEN_PAREN", "EOF", "INVALID"}

\* the input is a fact and a query with the period of the fact, token i,
\* replaced by an unexpected token
ReplacedTerminator(i) ==
    /\ IsPredicate(SubSeq(InputTypes, 1, i - 1))
    /\ InputTypes[i] \in Unexpected
    /\ IsQuery(SubSeq(InputTypes, i + 1, InputLen))

\* C7 (as claimed): a fact followed by a query, with the period of the fact
\* replaced by an unexpected token, gets exactly one diagnostic, at the
\* position of the replacement.
C7_OneDiagnosticAtReplacement ==
    (phase = "done" /\ ~LexAll.raised) =>
        \A i \in 2..InputLen :
            ReplacedTerminator(i) =>
                Len(errors) = 1 /\ Pos(errors[1]) = Pos(InputLexemes[i])

\* a step in which match finds another type than the one it expects
MatchFails(expected_type) ==
    /\ \/ /\ expected_type = "CLOSE_PAREN"
          /\ (Running("term", "match_close") \/ Running("predicate", "match_close"))
       \/ /\ expected_type = "PERIOD"
          /\ Running("clause", "match_period")
    /\ current_token.token_type # expected_type
    /\ stack' # stack

\* match records its diagnostic at the current token and reads no token
MatchRecordsInPlace ==
    \A e \in {"CLOSE_PAREN", "PERIOD"} :
        MatchFails(e) =>
            /\ errors' = Append(errors,
                   ErrorEntry(MismatchMessage(e, current_token.token_type),
                              current_token))
            /\ current_token' = current_token
            /\ position' = position

\* a step in which a match that failed returns into its rule: recover
\* returns and the last diagnostic is the one of match
FailedMatchReturns ==
    /\ Running("recover", "loop")
    /\ stack' = Rest
    /\ Rest # <<>>
    /\ Last(Rest).fn \in {"term", "predicate", "clause"}
    /\ Last(Rest).pc = "return"
    /\ errors # <<>>
    /\ \E e \in {"CLOSE_PAREN", "PERIOD"}, f \in TokenTypes :
          Last(errors).message = MismatchMessage(e, f)

\* the last diagnostic is the one match records for the current token
OffendingIsCurrent ==
    \E e \in {"CLOSE_PAREN", "PERIOD"} :
        Last(errors) = ErrorEntry(MismatchMessage(e, current_token.token_type),
                                  current_token)

SyncKinds == {"PERIOD", "COMMA", "QUERY", "CLOSE_PAREN", "EOF"}

InvalidEntry(tok) ==
    [message |-> "Invalid token '" \o tok.value,
     line |-> tok.line, char_position |-> tok.char_position]

\* C9: every Invalid token fetched into current_token gets its own
\* diagnostic at its position, appended in the step that fetches it, and no
\* grammar rule runs (so none records a diagnostic) while it is the current
\* token and that diagnostic is not in the list.
C9_InvalidTokenReportedFirst ==
    /\ [][(current_token' # current_token /\ current_token'.token_type = "INVALID")
            => errors' = Append(errors, InvalidEntry(current_token'))]_vars
    /\ [](current_token.token_type = "INVALID"
            => \E i \in DOMAIN errors : errors[i] = InvalidEntry(current_token))

\* C9 witness: the diagnostic of an Invalid token is followed in the list by
\* a diagnostic of a grammar rule.
C9_Witness ==
    \E i \in DOMAIN errors, tok \in {InputLexemes[j] : j \in DOMAIN InputLexemes} :
        /\ tok.token_type = "INVALID"
        /\ errors[i] = InvalidEntry(tok)
        /\ i < Len(errors)
        /\ errors[i + 1].message = "Expected <term>"

\* the number of characters the scanner is past: the '-' of ':-' and '?-' is
\* read when the generator is resumed after the yield
Consumed == position + (IF tokens = "before_dash" THEN 1 ELSE 0)

\* the index in the code of the next character that is not whitespace, or 0
NextStart ==
    LET rest == {i \in (Consumed + 1)..Len(code) : ~isspace(code[i])}
    IN  IF rest = {} THEN 0 ELSE CHOOSE i \in rest : \A j \in rest : i <= j

\* the character at NextStart is followed at once by '-'
DashFollows == NextStart < Len(code) /\ code[NextStart + 1] = "-"

\* the step yields one lexeme of this type and value
Yields(token_type, value) ==
    /\ Len(lexemes') = Len(lexemes) + 1
    /\ Last(lexemes').token_type = token_type
    /\ Last(lexemes').value = value

\* C10: when the next token starts with ':' or '?', one next() of the
\* scanner yields ColonDash ":-" / Query "?-" and is past both characters if
\* a '-' follows at once, and otherwise yields Colon ":" / Invalid "?" and
\* is past that one character only, so the following character starts the
\* next token.
C10_TwoCharacterLookahead ==
    [][(phase = "lex" /\ NextStart # 0 /\ code[NextStart] \in {":", "?"}) =>
         /\ (code[NextStart] = ":" /\ DashFollows) =>
               Yields("COLON_DASH", ":-") /\ Consumed' = NextStart + 1
         /\ (code[NextStart] = ":" /\ ~DashFollows) =>
               Yields("COLON", ":") /\ Consumed' = NextStart
         /\ (code[NextStart] = "?" /\ DashFollows) =>
               Yields("QUERY", "?-") /\ Consumed' = NextStart + 1
         /\ (code[NextStart] = "?" /\ ~DashFollows) =>
               Yields("INVALID", "?") /\ Consumed' = NextStart]_vars

\* C10 witness: the list of lexemes is complete for an input where ":-" is
\* followed by a lone '?' and that by a ':' of its own.
C10_Witness ==
    /\ phase = "lexed"
    /\ [i \in DOMAIN lexemes |-> lexemes[i].token_type]
         = <<"COLON_DASH", "INVALID", "COLON", "EOF">>
    /\ lexemes[2].value = "?"

\* the characters of the scanner alphabet that are not whitespace, an
\* operator character, a quote, ':', '?', a digit, a letter or '_'
OtherChars ==
    LexChars \ (Space \cup Digit \cup Lower \cup Upper
                \cup {"+", "-", "*", "/", "\\", "^", "~", ".", ",", "(", ")"}
                \cup {"'", ":", "?", "_"})

\* C11: when the next character that is not whitespace is none of the
\* characters the scanner knows, one next() yields exactly one Invalid lexeme
\* whose text is that character and the scanner is past that character only,
\* so that the character after it starts the next token.
C11_OtherCharIsOneInvalid ==
    [][(phase = "lex" /\ NextStart # 0 /\ code[NextStart] \in OtherChars) =>
          Yields("INVALID", code[NextStart]) /\ Consumed' = NextStart]_vars

\* C11 witness: the list of lexemes is complete for a run of two such
\* characters followed by an atom: two Invalid lexemes, then the atom.
C11_Witness ==
    /\ phase = "lexed"
    /\ Len(lexemes) = 4
    /\ lexemes[1].token_type = "INVALID" /\ lexemes[1].value \in OtherChars
    /\ lexemes[2].token_type = "INVALID" /\ lexemes[2].value \in OtherChars
    /\ lexemes[1].char_position + 1 = lexemes[2].char_position
    /\ lexemes[3].token_type = "ATOM"

\* a letter, a digit or an underscore
IdentChar(c) == c \in Lower \cup Upper \cup Digit \cup {"_"}

\* the index of the last character of the maximal run of letters, digits and
\* underscores that starts at NextStart
RunEnd ==
    CHOOSE k \in NextStart..Len(code) :
        /\ \A i \in NextStart..k : IdentChar(code[i])
        /\ k < Len(code) => ~IdentChar(code[k + 1])

\* the characters i..j of the code as one string
RECURSIVE Text(_, _)
Text(i, j) == IF i > j THEN "" ELSE code[i] \o Text(i + 1, j)

\* C12: when the next token starts with a lowercase letter, one next()
\* yields one Atom, and when it starts with an uppercase letter or '_', one
\* Variable; the text is the maximal run of letters, digits and underscores
\* from there, and the character after what has been read is none of these.
C12_IdentifierMaximalMunch ==
    [][(phase = "lex" /\ NextStart # 0
            /\ code[NextStart] \in Lower \cup Upper \cup {"_"}) =>
          /\ Yields(IF code[NextStart] \in Lower THEN "ATOM" ELSE "VARIABLE",
                    Text(NextStart, RunEnd))
          /\ Consumed' = RunEnd
          /\ Consumed' < Len(code) => ~IdentChar(code[Consumed' + 1])]_vars

\* C12 witness: the list of lexemes is complete for a lone '_' followed by
\* an atom of two characters that ends the input.
C12_Witness ==
    /\ phase = "lexed"
    /\ [i \in DOMAIN lexemes |-> lexemes[i].token_type] = <<"VARIABLE", "ATOM", "EOF">>
    /\ lexemes[1].value = "_"
    /\ lexemes[2].value \in {"a1", "a_", "aX"}

\* a step of Parser.advance: a request for a token
Request == Running("advance", "start") /\ stack' # stack

\* the generator has returned after its EndOfInput, or has raised
Exhausted == tokens \in {"after_eof", "finished"}

NewlinesRead == {i \in 1..position : code[i] = "\n"}

\* the index of the last newline read, or 0
LastNewlineRead ==
    IF NewlinesRead = {} THEN 0
    ELSE CHOOSE i \in NewlinesRead : \A j \in NewlinesRead : j <= i

\* the input holds whitespace only
OnlyWhitespace == \A i \in DOMAIN code : code[i] \in Space

\* C14: for an input of whitespace only, the complete list of lexemes is
\* the one EndOfInput; and for every input, each newline read has added one
\* to the line counter and set the column counter to 0, from which it counts
\* the characters read since.
C14_WhitespaceSkippedNewlinesCounted ==
    /\ (phase = "lexed" /\ OnlyWhitespace) =>
          (Len(lexemes) = 1 /\ lexemes[1].token_type = "EOF")
    /\ line = 1 + Cardinality(NewlinesRead)
    /\ char_position = position - LastNewlineRead

\* C14 witness: the list of lexemes is complete for an input of spaces and
\* newlines whose last newline is followed by a space: the EndOfInput is on
\* line 3, column 1.
C14_Witness ==
    /\ phase = "lexed"
    /\ OnlyWhitespace
    /\ Len(code) = 4
    /\ lexemes = <<Lexeme("EOF", "EOF", 3, 1)>>

\* C15: the results main has written for the units, which hold the same
\* text and each had a fresh Lexer and Parser, are the same diagnostics
\* list: same messages, same positions, same order.
C15_SameInputSameDiagnostics ==
    \A i, j \in DOMAIN output : output[i] = output[j]

\* C15 witness: two units have been processed and the result of each holds
\* at least two diagnostics.
C15_Witness ==
    /\ phase = "exit"
    /\ Len(output) >= 2
    /\ Len(output[1]) >= 2
    /\ Len(output[2]) >= 2

\* clause is about to return after its error "Expected '.' or ':-' after
\* predicate": recover has returned into it and that diagnostic is the last
ClauseReturnsAfterItsError ==
    /\ Running("clause", "return")
    /\ errors # <<>>
    /\ Last(errors).message = "Expected '.' or ':-' after predicate"

\* C16 (as claimed): when clause returns after its error "Expected '.' or
\* ':-' after predicate", the current token is a Period, a Query or
\* EndOfInput, never a Comma or a CloseParen.
C16_ClauseSyncsOnPeriodOrQuery ==
    ClauseReturnsAfterItsError =>
        current_token.token_type \in {"PERIOD", "QUERY", "EOF"}

\* the diagnostics of Parser.query
QueryMessages == {"Expected '?-' to start a query", "Expected '.' at the end of query"}

\* parse() has returned after query has, and query had recorded the last
\* diagnostic
QueryReturnedAfterItsError ==
    /\ phase = "done"
    /\ errors # <<>>
    /\ Last(errors).message \in QueryMessages

\* C17 (as claimed): when query has returned after its own error, the
\* current token is a Query or EndOfInput, never a Period, a Comma or a
\* CloseParen.
C17_QuerySyncsOnQueryOrEnd ==
    QueryReturnedAfterItsError => current_token.token_type \in {"QUERY", "EOF"}

\* the token types of the lexemes of the input, EndOfInput included
LexemeTypes == [k \in DOMAIN InputLexemes |-> InputLexemes[k].token_type]

\* the first i of the token types ty are a well-formed predicate and token
\* i + 1 is neither '.' nor ':-' nor Invalid
PredicateThenUnexpected(ty, i) ==
    /\ i + 1 \in DOMAIN ty
    /\ ty[i + 1] \notin {"PERIOD", "COLON_DASH", "INVALID"}
    /\ IsPredicate(SubSeq(ty, 1, i))

\* the first diagnostic is the one of clause, at token k of the input
FirstIsClauseErrorAt(k) ==
    /\ errors # <<>>
    /\ errors[1].message = "Expected '.' or ':-' after predicate"
    /\ Pos(errors[1]) = Pos(InputLexemes[k])

\* C18 (as claimed): for an input that starts with a well-formed predicate
\* followed by a token that is neither '.' nor ':-' nor Invalid, the first
\* diagnostic is "Expected '.' or ':-' after predicate" at that token.
C18_MissingTerminatorReportedFirst ==
    phase = "done" =>
        LET ty == LexemeTypes
        IN  \A i \in DOMAIN ty :
                PredicateThenUnexpected(ty, i) => FirstIsClauseErrorAt(i + 1)

\* C18 (amended): the same, unless the predicate is a bare atom and the
\* token after it is '(', which opens the argument list of the predicate.
C18_MissingTerminatorReportedFirstUnlessOpenParen ==
    phase = "done" =>
        LET ty == LexemeTypes
        IN  \A i \in DOMAIN ty :
                (PredicateThenUnexpected(ty, i) /\ ~(i = 1 /\ ty[2] = "OPEN_PAREN"))
                    => FirstIsClauseErrorAt(i + 1)

\* C18 witness: parse() has returned for an input whose period is missing,
\* a structure with two arguments followed by EndOfInput.
C18_Witness ==
    /\ phase = "done"
    /\ Len(LexemeTypes) >= 7
    /\ PredicateThenUnexpected(LexemeTypes, Len(LexemeTypes) - 1)
    /\ Last(LexemeTypes) = "EOF"
    /\ FirstIsClauseErrorAt(Len(LexemeTypes))

RECURSIVE OpenList(_)

\* k is an atom and '(' followed by an argument list that is not closed
OpenArguments(k) ==
    /\ Len(k) >= 3
    /\ k[1] = "ATOM" /\ k[2] = "OPEN_PAREN"
    /\ OpenList(SubSeq(k, 3, Len(k)))

\* k is a list of well-formed terms, or well-formed terms and commas
\* followed by a structure whose own argument list is such a list
OpenList(k) ==
    \/ IsTermList(k)
    \/ OpenArguments(k)
    \/ \E i \in 2..(Len(k) - 1) :
          /\ k[i] = "COMMA"
          /\ IsTerm(SubSeq(k, 1, i - 1))
          /\ OpenList(SubSeq(k, i + 1, Len(k)))

\* the first i of the token types ty are, after an optional '?-', a
\* predicate whose innermost open argument list holds well-formed terms
\* only, and token i + 1 is neither ',' nor ')'
ArgumentsThenUnexpected(ty, i) ==
    /\ i + 1 \in DOMAIN ty
    /\ ty[i + 1] \notin {"COMMA", "CLOSE_PAREN"}
    /\ \/ OpenArguments(SubSeq(ty, 1, i))
       \/ ty[1] = "QUERY" /\ OpenArguments(SubSeq(ty, 2, i))

\* the first diagnostic is the failure of match(CLOSE_PAREN) at token k
FirstIsCloseParenMismatchAt(k) ==
    /\ errors # <<>>
    /\ errors[1].message = "Expected TokenType.CLOSE_PAREN, but found TokenType."
                              \o LexemeTypes[k]
    /\ Pos(errors[1]) = Pos(InputLexemes[k])

NotAfter(p, q) == p[1] < q[1] \/ (p[1] = q[1] /\ p[2] <= q[2])

\* a step leaves the list of diagnostics as it is or appends one entry
OnlyAppends ==
    \/ errors' = errors
    \/ /\ Len(errors') = Len(errors) + 1
       /\ SubSeq(errors', 1, Len(errors)) = errors

\* every diagnostic is at the position of a lexeme the scanner produced for
\* the input, on a line >= 1, and the positions do not decrease along the list
RealOrderedPositions ==
    /\ \A e \in DOMAIN errors :
          /\ errors[e].line >= 1
          /\ \E k \in DOMAIN InputLexemes : Pos(errors[e]) = Pos(InputLexemes[k])
    /\ \A e \in 1..(Len(errors) - 1) : NotAfter(Pos(errors[e]), Pos(errors[e + 1]))

\* C20 (as claimed): the parser only appends to the list of diagnostics,
\* every diagnostic carries the position of a token produced by the scanner
\* (line >= 1), and the positions are non-decreasing along the list.
C20_DiagnosticsOrderedAtRealPositions ==
    [][OnlyAppends]_vars /\ [](phase \in {"init", "parse", "done"} => RealOrderedPositions)

\* the line on which character q of the code lies, and its column on it
LineOf(q) == 1 + Cardinality({i \in 1..(q - 1) : code[i] = "\n"})
ColumnOf(q) ==
    LET before == {i \in 1..(q - 1) : code[i] = "\n"}
    IN  IF before = {} THEN q
        ELSE q - (CHOOSE i \in before : \A j \in before : j <= i)

\* a step that yields a lexeme other than EndOfInput
YieldsToken ==
    /\ phase = "lex"
    /\ Len(lexemes') = Len(lexemes) + 1
    /\ Last(lexemes').token_type # "EOF"

\* C21 (as claimed): every lexeme other than EndOfInput carries the line on
\* which its first character lies and the column of that character,
\* whatever its kind, a quoted atom that holds a newline included.
C21_PositionIsFirstCharacter ==
    [][YieldsToken =>
          /\ Last(lexemes').line = LineOf(NextStart)
          /\ Last(lexemes').char_position = ColumnOf(NextStart)]_vars

\* Parser.error returns normally: the loop of the recover it called ends
ErrorReturns == Running("recover", "loop") /\ stack' = Rest

\* the recovery of Parser.error is at the test of its loop
Recovering == Running("recover", "loop")

\* C22: every step that records a diagnostic (in a rule, in an except block
\* or in advance for an Invalid token) enters recovery; recovery fetches the
\* next token while the current token is not a Period, Comma, Query,
\* CloseParen or EndOfInput and fetches none when it is, so that whenever
\* Parser.error returns normally the current token is of one of these kinds.
C22_ErrorReturnsAtSyncToken ==
    [][/\ ErrorReturns =>
              /\ current_token.token_type \in SyncKinds
              /\ current_token' = current_token
       /\ errors' # errors =>
              /\ Len(errors') = Len(errors) + 1
              /\ stack' # <<>>
              /\ Last(stack') = Frame("recover", "loop")
              /\ exc' = NoExc
       /\ (Recovering /\ current_token.token_type \in SyncKinds) =>
              /\ ErrorReturns
              /\ UNCHANGED <<lexer_vars, current_token, errors>>
       /\ (Recovering /\ current_token.token_type \notin SyncKinds) =>
              /\ stack' = stack \o <<Frame("advance", "start")>>
              /\ UNCHANGED <<lexer_vars, current_token, errors>>]_vars

\* C22 witness: the error recorded by advance for the Invalid token '?' is
\* about to return at a period, the '?' discarded.
C22_Witness ==
    /\ Recovering
    /\ errors # <<>>
    /\ Last(errors).message = "Invalid token '?"
    /\ current_token.token_type = "PERIOD"
    /\ Pos(current_token) # Pos(Last(errors))

====
